---- MODULE Spec2Model ----
(***************************************************************************)
(* A model of the sigslot library: Connection, Signal (sigslot.h and its   *)
(* named twin in namedsigslot.h) and SignalHub (namedsigslot.h).           *)
(*                                                                         *)
(* Objects are identified by small integers.  A std::shared_ptr is a       *)
(* strong count (connStrong, sigStrong); a std::weak_ptr is the identity   *)
(* of the object, and weak_ptr::lock() succeeds while the strong count is  *)
(* positive.  A std::list iterator is the identity of the node it points   *)
(* to (the Connection of the entry) or End; it dangles when that node is   *)
(* no longer in the list.  Each thread has a call stack of frames, so that *)
(* a slot running inside an emission can call back into the library.       *)
(* An access to a destroyed object or an erased list node is undefined     *)
(* behaviour: the model records it in fault and the run ends there.        *)
(***************************************************************************)
EXTENDS Integers, Sequences, FiniteSets, TLC

MaxConns == 3
MaxSigs == 2
MaxOps == 7
MaxHubOps == 5

End == 0
NoThread == 0

Threads == {1, 2}
Names == {"tick"}
Shapes == {"void(int)", "void(string)"}   \* the Signatures callers use
SignalShapes == {"void(int)"}             \* the Signatures Signals are made with
NoShape == ""
NoName == ""
Conns == 1..MaxConns
Sigs == 1..MaxSigs

VARIABLES
    sigState,     \* "free" | "building" | "live" | "expired" | "destroyed"
    sigEnable,    \* ObjectBase::enable_ of a Signal
    sigConns,     \* Signal::conns_ (the Connection of each entry, in list order)
    sigLock,      \* Signal::lock_ (std::recursive_mutex): owner and depth
    sigDeleter,   \* ObjectBase::deleter_ of a Signal: TRUE when the Hub's callback is set
    sigName,      \* NamedObjectBase::name_ of a Signal
    sigShape,     \* the Signature the Signal was instantiated with
    sigStrong,    \* use_count of the Signal's shared_ptr
    sigHeld,      \* the caller still holds the handle it was given
    connState,    \* "free" | "alive" | "expired" | "deleted"
    connEnable,   \* ObjectBase::enable_ of a Connection
    connDeleter,  \* ObjectBase::deleter_ of a Connection: none, a Signal's, or the Hub's
    connShape,    \* the Signature the Connection was instantiated with
    connStrong,   \* use_count of the Connection's shared_ptr
    connHeld,     \* the caller still holds the handle it was given
    hubState,     \* "none" | "live" | "destroyed"
    hubLock,      \* SignalHub::lock_
    signals_,     \* SignalHub::signals_ : name -> Signal (End: no entry)
    early_conns_, \* SignalHub::early_conns_ : name -> parked Connections
    earlyKeys,    \* the names that have an entry in early_conns_
    items,        \* ObjectContainer::items_ (the Connections it owns, in order)
    boxState,     \* the ObjectContainer: "none" | "live" | "dying" | "destroyed"
    saved,        \* observation: the Connections ever passed to Save
    stack,        \* per thread, the frames of the calls in progress (top last)
    ops,          \* the number of API calls the callers may still make
    gone,         \* the Connections whose release call has returned
    muted,        \* the Signals on which an Emit returned at the Enabled() check
    unheard,      \* how many Hub.Emit calls found no live Signal (counted up to 2)
    early,        \* per Signal, the Connections that were parked when AddSignal was called
    orphans,      \* per Signal, the inert Connections when AddSignal was called
    before,       \* per Signal, the Connections gone when AddSignal was called
    parked,       \* the Connections that Hub.Connect created parked
    fault         \* "none", or the undefined behaviour the run ended in

sigVars ==
    <<sigState, sigEnable, sigConns, sigLock, sigDeleter, sigName, sigShape,
      sigStrong, sigHeld>>
connVars ==
    <<connState, connEnable, connDeleter, connShape, connStrong, connHeld>>
hubVars == <<hubState, hubLock, signals_, early_conns_, earlyKeys>>
boxVars == <<items, boxState, saved>>
vars ==
    <<sigVars, connVars, hubVars, boxVars, stack, ops, gone, muted, unheard, early,
      orphans, before, parked, fault>>

----------------------------------------------------------------------------
(* Sequences as std::list *)

Range(seq) == {seq[i] : i \in 1..Len(seq)}

InList(seq, x) == x \in Range(seq)

IndexOf(seq, x) == CHOOSE i \in 1..Len(seq) : seq[i] = x

Begin(seq) == IF seq = <<>> THEN End ELSE seq[1]

\* ++it
Succ(seq, x) ==
    LET i == IndexOf(seq, x)
    IN  IF i = Len(seq) THEN End ELSE seq[i + 1]

Erase(seq, x) == SelectSeq(seq, LAMBDA y : y # x)

\* The entries before iterator x (all of them when x is End).
Before(seq, x) ==
    IF x = End THEN seq
    ELSE IF InList(seq, x) THEN SubSeq(seq, 1, IndexOf(seq, x) - 1)
    ELSE <<>>

PushFront(seq, x) == <<x>> \o seq

PushBack(seq, x) == Append(seq, x)

----------------------------------------------------------------------------
(* std::recursive_mutex *)

Unlocked == [owner |-> NoThread, depth |-> 0]

CanLock(l, t) == l.owner \in {NoThread, t}

Acquire(l, t) == [owner |-> t, depth |-> l.depth + 1]

Release(l) == IF l.depth <= 1 THEN Unlocked ELSE [l EXCEPT !.depth = @ - 1]

----------------------------------------------------------------------------
(* Frames *)

NoDeleter == [kind |-> "none", s |-> End, n |-> NoName]
SigDetach(s) == [kind |-> "sig", s |-> s, n |-> NoName]
HubDetach(n) == [kind |-> "hub", s |-> End, n |-> n]

Frame(op, pc, s, c, n) ==
    [op |-> op, pc |-> pc, s |-> s, c |-> c, n |-> n,
     it |-> End, nx |-> End, via |-> "", inv |-> <<>>,
     clean |-> TRUE, en |-> TRUE, aft |-> {}, at |-> <<>>, sh |-> NoShape]

Top(t) == stack[t][Len(stack[t])]

Below(t) == SubSeq(stack[t], 1, Len(stack[t]) - 1)

InFrame(t, op, pc) ==
    /\ stack[t] # <<>>
    /\ Top(t).op = op
    /\ Top(t).pc = pc

\* A caller: a thread outside the library, or a slot that is running.
CanCall(t) ==
    /\ fault = "none"
    /\ ops > 0
    /\ IF stack[t] = <<>> THEN TRUE ELSE Top(t).op = "Callback"

\* The emission frames on Signal s are no longer undisturbed passes.
Disturb(stk, s) ==
    [t \in Threads |->
        [i \in 1..Len(stk[t]) |->
            IF stk[t][i].op = "Emit" /\ stk[t][i].s = s
            THEN [stk[t][i] EXCEPT !.clean = FALSE]
            ELSE stk[t][i]]]

DisturbAll(stk, S) ==
    [t \in Threads |->
        [i \in 1..Len(stk[t]) |->
            IF stk[t][i].op = "Emit" /\ stk[t][i].s \in S
            THEN [stk[t][i] EXCEPT !.clean = FALSE]
            ELSE stk[t][i]]]

ListsOf(c) == {s \in Sigs : InList(sigConns[s], c)}

FreeConns == {c \in Conns : connState[c] = "free"}
NewConn == CHOOSE c \in FreeConns : \A d \in FreeConns : c <= d

FreeSigs == {s \in Sigs : sigState[s] = "free"}
NewSig == CHOOSE s \in FreeSigs : \A d \in FreeSigs : s <= d

\* A call on Signal s through the caller's own handle is in progress.
DirectUse(s) ==
    \E t \in Threads : \E i \in 1..Len(stack[t]) :
        /\ stack[t][i].op = "Emit"
        /\ stack[t][i].s = s
        /\ stack[t][i].via = "direct"

\* Calls on the Hub that have not allocated their Connection yet.
PendingConnects ==
    Cardinality(UNION {
        {<<t, i>> : i \in {j \in 1..Len(stack[t]) :
            /\ stack[t][j].op = "HubConnect"
            /\ stack[t][j].pc \in {"lock", "connect"}}} : t \in Threads})

\* A call on the Hub is in progress.
HubInUse ==
    \E t \in Threads : \E i \in 1..Len(stack[t]) :
        stack[t][i].op \in {"HubConnect", "HubEmit", "AddSignal"}

----------------------------------------------------------------------------
(* Initial states *)

InitConns ==
    /\ connState = [c \in Conns |-> "free"]
    /\ connEnable = [c \in Conns |-> TRUE]
    /\ connDeleter = [c \in Conns |-> NoDeleter]
    /\ connShape = [c \in Conns |-> NoShape]
    /\ connStrong = [c \in Conns |-> 0]
    /\ connHeld = [c \in Conns |-> FALSE]

InitCtl ==
    /\ stack = [t \in Threads |-> <<>>]
    /\ gone = {}
    /\ muted = {}
    /\ unheard = 0
    /\ early = [s \in Sigs |-> {}]
    /\ orphans = [s \in Sigs |-> {}]
    /\ before = [s \in Sigs |-> {}]
    /\ parked = {}
    /\ fault = "none"

\* sigslot.h: one Signal has been constructed and its owner holds it.
Init ==
    /\ sigState = [s \in Sigs |-> IF s = 1 THEN "live" ELSE "free"]
    /\ sigEnable = [s \in Sigs |-> TRUE]
    /\ sigConns = [s \in Sigs |-> <<>>]
    /\ sigLock = [s \in Sigs |-> Unlocked]
    /\ sigDeleter = [s \in Sigs |-> FALSE]
    /\ sigName = [s \in Sigs |-> NoName]
    /\ sigShape = [s \in Sigs |-> IF s = 1 THEN "void(int)" ELSE NoShape]
    /\ sigStrong = [s \in Sigs |-> IF s = 1 THEN 1 ELSE 0]
    /\ sigHeld = [s \in Sigs |-> s = 1]
    /\ InitConns
    /\ hubState = "none"
    /\ hubLock = Unlocked
    /\ signals_ = [n \in Names |-> End]
    /\ early_conns_ = [n \in Names |-> <<>>]
    /\ earlyKeys = {}
    /\ items = <<>>
    /\ boxState = "live"
    /\ saved = {}
    /\ ops = MaxOps
    /\ InitCtl

----------------------------------------------------------------------------
(* Stack edits *)

Push(t, f) == [stack EXCEPT ![t] = Append(@, f)]

Pop(t) == [stack EXCEPT ![t] = Below(t)]

SetTop(t, f) == [stack EXCEPT ![t] = Append(Below(t), f)]

Running(t) == fault = "none" /\ stack[t] # <<>>

----------------------------------------------------------------------------
(* Faulty variants of the code, each used to show that a property below
   tells the code from the variant *)

\* ConnectInternal with push_front in place of push_back
AttachFront(seq, c) == PushFront(seq, c)

\* operator() without its Enabled() check
EmitEnabledAlways(s) == TRUE

\* ~Signal without the OnFinal calls
FinalizedNone(s) == connDeleter

\* the Hub's lookup without the test of the locked weak_ptr
RegisteredAny(n) == signals_[n] # End

\* Hub.Connect with push_front in place of push_back
ParkFront(seq, c) == PushFront(seq, c)

\* ~SignalHub without its loop over early_conns_
ParkedFinalNone == connDeleter

\* AddSignal without early_conns_.erase(conns_iter)
ErasedNone(n) == early_conns_

\* deleter_ of a Signal erasing the entry of its name whatever it points to
UnregisteredAlways(s, n) == [signals_ EXCEPT ![n] = End]

\* deleter_ of a parked Connection leaving early_conns_ as it is
UnparkedNone(n, c) == early_conns_

\* Hub.Emit calling the Signal without keeping the locked shared_ptr
EmitRefNone(s) == sigStrong

----------------------------------------------------------------------------
(* Connection, Signal: sigslot.h (namedsigslot.h repeats the same code) *)

\* Signal::operator(): if (!Enabled()) return;
EmitEnabled(s) == sigEnable[s]

\* weak_ptr::lock() on a dispatch-list entry gives a Connection
Locked(c) == connStrong[c] > 0

\* Connection::operator(): if (!Enabled()) return; slot_(params...);
SlotRuns(c) == connEnable[c]

\* ConnectInternal: conns_.push_back(std::make_pair(p, conn))
Attach(seq, c) == PushBack(seq, c)

\* The detach callback ConnectInternal installs: find_if by p, erase
Detach(seq, c) == IF InList(seq, c) THEN Erase(seq, c) ELSE seq

\* ~Signal: OnFinal on every entry whose weak_ptr still locks
Finalized(s) ==
    [c \in Conns |->
        IF InList(sigConns[s], c) /\ Locked(c) THEN NoDeleter ELSE connDeleter[c]]

EmitFrame(s, via) ==
    [Frame("Emit", "lock", s, End, NoName) EXCEPT
        !.via = via, !.en = sigEnable[s], !.aft = gone]

\* Signal::Connect, with ConnectInternal: the whole call runs under lock_
SignalConnect(t, s) ==
    /\ CanCall(t)
    /\ sigHeld[s]
    /\ Cardinality(FreeConns) > PendingConnects
    /\ CanLock(sigLock[s], t)
    /\ LET c == NewConn
       IN  /\ connState' = [connState EXCEPT ![c] = "alive"]
           /\ connEnable' = [connEnable EXCEPT ![c] = TRUE]
           /\ connStrong' = [connStrong EXCEPT ![c] = 1]
           /\ connHeld' = [connHeld EXCEPT ![c] = TRUE]
           /\ connDeleter' = [connDeleter EXCEPT ![c] = SigDetach(s)]
           /\ connShape' = [connShape EXCEPT ![c] = sigShape[s]]
           /\ sigConns' = [sigConns EXCEPT ![s] = Attach(@, c)]
    /\ stack' = Disturb(stack, s)
    /\ ops' = ops - 1
    /\ UNCHANGED <<sigState, sigEnable, sigLock, sigDeleter, sigName,
                   sigShape, sigStrong, sigHeld, hubVars, boxVars, gone,
                   muted, unheard, early, orphans, before, parked, fault>>

\* Signal::Emit / operator(), up to the Enabled() check
SignalEmit(t, s) ==
    /\ CanCall(t)
    /\ sigHeld[s]
    /\ stack' = IF EmitEnabled(s) THEN Push(t, EmitFrame(s, "direct")) ELSE stack
    /\ muted' = IF EmitEnabled(s) THEN muted ELSE muted \cup {s}
    /\ ops' = ops - 1
    /\ UNCHANGED <<sigVars, connVars, hubVars, boxVars, gone, unheard, early,
                   orphans, before, parked, fault>>

\* std::lock_guard l(lock_); it = conns_.begin()
EmitLock(t) ==
    /\ Running(t)
    /\ InFrame(t, "Emit", "lock")
    /\ LET f == Top(t)
       IN  /\ CanLock(sigLock[f.s], t)
           /\ sigLock' = [sigLock EXCEPT ![f.s] = Acquire(@, t)]
           /\ stack' = SetTop(t, [f EXCEPT !.pc = "loop", !.it = Begin(sigConns[f.s]),
                                           !.at = sigConns[f.s]])
    /\ UNCHANGED <<sigState, sigEnable, sigConns, sigDeleter, sigName,
                   sigShape, sigStrong, sigHeld, connVars, hubVars, boxVars,
                   ops, gone, muted, unheard, early, orphans, before, parked,
                   fault>>

\* it == itEnd: the pass is over, the lock_guard unlocks
EmitDone(t) ==
    /\ Running(t)
    /\ InFrame(t, "Emit", "loop")
    /\ Top(t).it = End
    /\ sigLock' = [sigLock EXCEPT ![Top(t).s] = Release(@)]
    /\ stack' = Pop(t)
    /\ UNCHANGED <<sigState, sigEnable, sigConns, sigDeleter, sigName,
                   sigShape, sigStrong, sigHeld, connVars, hubVars, boxVars,
                   ops, gone, muted, unheard, early, orphans, before, parked,
                   fault>>

\* itNext = it + 1; conn = it->second.lock(); (*conn)(params...) calls the slot
EmitInvoke(t) ==
    /\ Running(t)
    /\ InFrame(t, "Emit", "loop")
    /\ LET f == Top(t)
       IN  /\ InList(sigConns[f.s], f.it)
           /\ Locked(f.it)
           /\ SlotRuns(f.it)
           /\ connStrong' = [connStrong EXCEPT ![f.it] = @ + 1]
           /\ stack' = [stack EXCEPT ![t] =
                  Below(t) \o
                  << [f EXCEPT !.pc = "after", !.c = f.it,
                               !.nx = Succ(sigConns[f.s], f.it),
                               !.inv = Append(@, f.it)],
                     Frame("Callback", "body", f.s, f.it, NoName) >>]
    /\ UNCHANGED <<sigVars, connState, connEnable, connDeleter, connShape,
                   connHeld, hubVars, boxVars, ops, gone, muted, unheard,
                   early, orphans, before, parked, fault>>

\* the Connection is disabled: operator() returns at once; it = itNext
EmitSkip(t) ==
    /\ Running(t)
    /\ InFrame(t, "Emit", "loop")
    /\ LET f == Top(t)
       IN  /\ InList(sigConns[f.s], f.it)
           /\ Locked(f.it)
           /\ ~SlotRuns(f.it)
           /\ stack' = SetTop(t, [f EXCEPT !.it = Succ(sigConns[f.s], f.it)])
    /\ UNCHANGED <<sigVars, connVars, hubVars, boxVars, ops, gone, muted,
                   unheard, early, orphans, before, parked, fault>>

\* the weak_ptr is expired: conns_.erase(it); it = itNext
EmitPrune(t) ==
    /\ Running(t)
    /\ InFrame(t, "Emit", "loop")
    /\ LET f == Top(t)
       IN  /\ InList(sigConns[f.s], f.it)
           /\ ~Locked(f.it)
           /\ sigConns' = [sigConns EXCEPT ![f.s] = Erase(@, f.it)]
           /\ stack' = [Disturb(stack, f.s) EXCEPT ![t] =
                  Append(SubSeq(@, 1, Len(@) - 1),
                         [f EXCEPT !.it = Succ(sigConns[f.s], f.it)])]
    /\ UNCHANGED <<sigState, sigEnable, sigLock, sigDeleter, sigName,
                   sigShape, sigStrong, sigHeld, connVars, hubVars, boxVars,
                   ops, gone, muted, unheard, early, orphans, before, parked,
                   fault>>

\* it points to a node that was erased from conns_: ++itNext and it->second
\* read freed storage
EmitDangling(t) ==
    /\ Running(t)
    /\ InFrame(t, "Emit", "loop")
    /\ Top(t).it # End
    /\ ~InList(sigConns[Top(t).s], Top(t).it)
    /\ fault' = "emit: erased dispatch-list node"
    /\ UNCHANGED <<sigVars, connVars, hubVars, boxVars, stack, ops, gone,
                   muted, unheard, early, orphans, before, parked>>

\* the slot has returned: it = itNext, then conn (the pass's own reference)
\* goes out of scope; the shared_ptr deleter runs here if it was the last one
EmitAfter(t) ==
    /\ Running(t)
    /\ InFrame(t, "Emit", "after")
    /\ LET f == Top(t)
           g == [f EXCEPT !.pc = "loop", !.it = f.nx, !.c = End, !.nx = End]
       IN  /\ connStrong' = [connStrong EXCEPT ![f.c] = @ - 1]
           /\ IF connStrong[f.c] = 1
              THEN /\ connState' = [connState EXCEPT ![f.c] = "expired"]
                   /\ stack' = DisturbAll(
                          [stack EXCEPT ![t] =
                              Below(t) \o <<g, Frame("ConnDeleter", "run", End, f.c, NoName)>>],
                          ListsOf(f.c))
              ELSE /\ stack' = SetTop(t, g)
                   /\ UNCHANGED connState
    /\ UNCHANGED <<sigVars, connEnable, connDeleter, connShape, connHeld,
                   hubVars, boxVars, ops, gone, muted, unheard, early,
                   orphans, before, parked, fault>>

\* the slot returns
CallbackReturn(t) ==
    /\ Running(t)
    /\ InFrame(t, "Callback", "body")
    /\ stack' = Pop(t)
    /\ UNCHANGED <<sigVars, connVars, hubVars, boxVars, ops, gone, muted,
                   unheard, early, orphans, before, parked, fault>>

\* ObjectBase::Enable on a Signal
SignalEnable(t, s, b) ==
    /\ CanCall(t)
    /\ sigHeld[s]
    /\ sigEnable' = [sigEnable EXCEPT ![s] = b]
    /\ ops' = ops - 1
    /\ UNCHANGED <<sigState, sigConns, sigLock, sigDeleter, sigName, sigShape,
                   sigStrong, sigHeld, connVars, hubVars, boxVars, stack,
                   gone, muted, unheard, early, orphans, before, parked,
                   fault>>

\* ObjectBase::Enable on a Connection
ConnEnable(t, c, b) ==
    /\ CanCall(t)
    /\ connHeld[c]
    /\ connEnable' = [connEnable EXCEPT ![c] = b]
    /\ stack' = IF b = connEnable[c] THEN stack ELSE DisturbAll(stack, ListsOf(c))
    /\ ops' = ops - 1
    /\ UNCHANGED <<sigVars, connState, connDeleter, connShape, connStrong,
                   connHeld, hubVars, boxVars, gone, muted, unheard, early,
                   orphans, before, parked, fault>>

\* The caller resets its shared_ptr<Connection>; at use_count 0 the deleter
\* given in Connect starts
ReleaseConn(t, c) ==
    /\ CanCall(t)
    /\ connHeld[c]
    /\ connHeld' = [connHeld EXCEPT ![c] = FALSE]
    /\ connStrong' = [connStrong EXCEPT ![c] = @ - 1]
    /\ IF connStrong[c] = 1
       THEN /\ connState' = [connState EXCEPT ![c] = "expired"]
            /\ stack' = DisturbAll(
                   Push(t, Frame("ConnDeleter", "run", End, c, NoName)), ListsOf(c))
            /\ UNCHANGED gone
       ELSE /\ gone' = IF InList(items, c) THEN gone ELSE gone \cup {c}
            /\ UNCHANGED <<connState, stack>>
    /\ ops' = ops - 1
    /\ UNCHANGED <<sigVars, connEnable, connDeleter, connShape, hubVars,
                   boxVars, muted, unheard, early, orphans, before, parked,
                   fault>>

\* shared_ptr deleter of a Connection: deleter_ is empty; delete p
ConnDeleterNone(t) ==
    /\ Running(t)
    /\ InFrame(t, "ConnDeleter", "run")
    /\ LET c == Top(t).c
       IN  /\ connDeleter[c].kind = "none"
           /\ connState' = [connState EXCEPT ![c] = "deleted"]
           /\ gone' = gone \cup {c}
    /\ stack' = Pop(t)
    /\ UNCHANGED <<sigVars, connEnable, connDeleter, connShape, connStrong,
                   connHeld, hubVars, boxVars, ops, muted, unheard, early,
                   orphans, before, parked, fault>>

\* shared_ptr deleter of a Connection: p->deleter_(p) is the Signal's detach
\* callback (lock_, find_if, erase); delete p
ConnDeleterSignal(t) ==
    /\ Running(t)
    /\ InFrame(t, "ConnDeleter", "run")
    /\ LET c == Top(t).c
           s == connDeleter[c].s
       IN  /\ connDeleter[c].kind = "sig"
           /\ sigState[s] # "destroyed"
           /\ CanLock(sigLock[s], t)
           /\ sigConns' = [sigConns EXCEPT ![s] = Detach(@, c)]
           /\ connState' = [connState EXCEPT ![c] = "deleted"]
           /\ gone' = gone \cup {c}
    /\ stack' = Pop(t)
    /\ UNCHANGED <<sigState, sigEnable, sigLock, sigDeleter, sigName,
                   sigShape, sigStrong, sigHeld, connEnable, connDeleter,
                   connShape, connStrong, connHeld, hubVars, boxVars, ops,
                   muted, unheard, early, orphans, before, parked, fault>>

\* p->deleter_(p) captured a Signal that has been destroyed: it locks the
\* mutex and walks the list of a dead object
ConnDeleterDangling(t) ==
    /\ Running(t)
    /\ InFrame(t, "ConnDeleter", "run")
    /\ connDeleter[Top(t).c].kind = "sig"
    /\ sigState[connDeleter[Top(t).c].s] = "destroyed"
    /\ fault' = "detach: destroyed signal"
    /\ UNCHANGED <<sigVars, connVars, hubVars, boxVars, stack, ops, gone,
                   muted, unheard, early, orphans, before, parked>>

\* The caller gives up a Signal it owns; at use_count 0 the Signal is final
ReleaseSignal(t, s) ==
    /\ CanCall(t)
    /\ sigHeld[s]
    /\ ~DirectUse(s)
    /\ sigHeld' = [sigHeld EXCEPT ![s] = FALSE]
    /\ sigStrong' = [sigStrong EXCEPT ![s] = @ - 1]
    /\ IF sigStrong[s] = 1
       THEN /\ sigState' = [sigState EXCEPT ![s] = "expired"]
            /\ stack' = Push(t, Frame("SigDeleter",
                                      IF sigDeleter[s] THEN "deleter" ELSE "dtor",
                                      s, End, NoName))
       ELSE UNCHANGED <<sigState, stack>>
    /\ ops' = ops - 1
    /\ UNCHANGED <<sigEnable, sigConns, sigLock, sigDeleter, sigName,
                   sigShape, connVars, hubVars, boxVars, gone, muted, unheard,
                   early, orphans, before, parked, fault>>

\* ~Signal
SignalDestructor(t) ==
    /\ Running(t)
    /\ InFrame(t, "SigDeleter", "dtor")
    /\ LET s == Top(t).s
       IN  /\ CanLock(sigLock[s], t)
           /\ connDeleter' = Finalized(s)
           /\ sigState' = [sigState EXCEPT ![s] = "destroyed"]
           /\ sigConns' = [sigConns EXCEPT ![s] = <<>>]
    /\ stack' = Pop(t)
    /\ UNCHANGED <<sigEnable, sigLock, sigDeleter, sigName, sigShape,
                   sigStrong, sigHeld, connState, connEnable, connShape,
                   connStrong, connHeld, hubVars, boxVars, ops, gone, muted,
                   unheard, early, orphans, before, parked, fault>>

SignalStep(t) ==
    \/ EmitLock(t)
    \/ EmitDone(t)
    \/ EmitInvoke(t)
    \/ EmitSkip(t)
    \/ EmitPrune(t)
    \/ EmitDangling(t)
    \/ EmitAfter(t)
    \/ CallbackReturn(t)
    \/ ConnDeleterNone(t)
    \/ ConnDeleterSignal(t)
    \/ ConnDeleterDangling(t)
    \/ SignalDestructor(t)

SignalCall(t) ==
    \/ \E s \in Sigs : SignalConnect(t, s)
    \/ \E s \in Sigs : SignalEmit(t, s)
    \/ \E s \in Sigs : ReleaseSignal(t, s)
    \/ \E s \in Sigs, b \in BOOLEAN : SignalEnable(t, s, b)
    \/ \E c \in Conns, b \in BOOLEAN : ConnEnable(t, c, b)
    \/ \E c \in Conns : ReleaseConn(t, c)

----------------------------------------------------------------------------
(* ObjectContainer: sigslot.h *)

\* Save: lock_guard l(lock_); items_.push_back(item): the container holds
\* a copy of the caller's shared_ptr
ContainerSave(t, c) ==
    /\ CanCall(t)
    /\ boxState = "live"
    /\ connHeld[c]
    /\ ~InList(items, c)
    /\ items' = PushBack(items, c)
    /\ saved' = saved \cup {c}
    /\ connStrong' = [connStrong EXCEPT ![c] = @ + 1]
    /\ ops' = ops - 1
    /\ UNCHANGED <<sigVars, connState, connEnable, connDeleter, connShape,
                   connHeld, hubVars, boxState, stack, gone, muted, unheard,
                   early, orphans, before, parked, fault>>

\* The owner gives up the container: ~ObjectContainer starts to destroy
\* items_
ReleaseContainer(t) ==
    /\ CanCall(t)
    /\ boxState = "live"
    /\ boxState' = "dying"
    /\ stack' = Push(t, Frame("BoxDtor", "drop", End, End, NoName))
    /\ ops' = ops - 1
    /\ UNCHANGED <<sigVars, connVars, hubVars, items, saved, gone, muted,
                   unheard, early, orphans, before, parked, fault>>

\* ~std::list: the first remaining shared_ptr is destroyed; at use_count 0
\* the deleter given in Connect starts
ContainerDrop(t) ==
    /\ Running(t)
    /\ InFrame(t, "BoxDtor", "drop")
    /\ items # <<>>
    /\ LET c == Head(items)
           f == [Top(t) EXCEPT !.inv = Append(@, c)]
       IN  /\ items' = Tail(items)
           /\ connStrong' = [connStrong EXCEPT ![c] = @ - 1]
           /\ IF connStrong[c] = 1
              THEN /\ connState' = [connState EXCEPT ![c] = "expired"]
                   /\ stack' = DisturbAll(
                          [stack EXCEPT ![t] =
                              Below(t) \o
                              <<f, Frame("ConnDeleter", "run", End, c, NoName)>>],
                          ListsOf(c))
              ELSE /\ stack' = SetTop(t, f)
                   /\ UNCHANGED connState
    /\ UNCHANGED <<sigVars, connEnable, connDeleter, connShape, connHeld,
                   hubVars, boxState, saved, ops, gone, muted, unheard, early,
                   orphans, before, parked, fault>>

\* ~ObjectContainer returns: every handle it held has been released
ContainerGone(t) ==
    /\ Running(t)
    /\ InFrame(t, "BoxDtor", "drop")
    /\ items = <<>>
    /\ boxState' = "destroyed"
    /\ gone' = gone \cup {c \in Range(Top(t).inv) : ~connHeld[c]}
    /\ stack' = Pop(t)
    /\ UNCHANGED <<sigVars, connVars, hubVars, items, saved, ops, muted,
                   unheard, early, orphans, before, parked, fault>>

ContainerStep(t) ==
    \/ ContainerDrop(t)
    \/ ContainerGone(t)

ContainerCall(t) ==
    \/ \E c \in Conns : ContainerSave(t, c)
    \/ ReleaseContainer(t)

Next ==
    \E t \in Threads :
        SignalCall(t) \/ SignalStep(t) \/ ContainerCall(t) \/ ContainerStep(t)

Spec == Init /\ [][Next]_vars

----------------------------------------------------------------------------
(* SignalHub: namedsigslot.h *)

\* signals_.find(name) finds an entry whose weak_ptr locks
Registered(n) == signals_[n] # End /\ sigStrong[signals_[n]] > 0

\* Connect: early_conns_[sig_name].push_back(...)
Park(seq, c) == PushBack(seq, c)

\* AddSignal: early_conns_.erase(conns_iter)
Erased(n) == [early_conns_ EXCEPT ![n] = <<>>]

\* Emit: signal = sig_iter->second.second.lock(), kept until Emit returns
EmitRef(s) == [sigStrong EXCEPT ![s] = @ + 1]

\* deleter_ of a Signal of the Hub: if (p == sig_iter->second.first)
\* signals_.erase(sig_iter)
Unregistered(s, n) ==
    IF signals_[n] = s THEN [signals_ EXCEPT ![n] = End] ELSE signals_

\* deleter_ of a parked Connection: find_if by p in early_conns_[sig_name],
\* erase
Unparked(n, c) == [early_conns_ EXCEPT ![n] = Detach(@, c)]

\* std::dynamic_pointer_cast to the caller's Signature gives a non-null
\* pointer
Cast(have, want) == have = want

\* the Hub: one SignalHub has been constructed, no Signal yet
InitHub ==
    /\ sigState = [s \in Sigs |-> "free"]
    /\ sigEnable = [s \in Sigs |-> TRUE]
    /\ sigConns = [s \in Sigs |-> <<>>]
    /\ sigLock = [s \in Sigs |-> Unlocked]
    /\ sigDeleter = [s \in Sigs |-> FALSE]
    /\ sigName = [s \in Sigs |-> NoName]
    /\ sigShape = [s \in Sigs |-> NoShape]
    /\ sigStrong = [s \in Sigs |-> 0]
    /\ sigHeld = [s \in Sigs |-> FALSE]
    /\ InitConns
    /\ hubState = "live"
    /\ hubLock = Unlocked
    /\ signals_ = [n \in Names |-> End]
    /\ early_conns_ = [n \in Names |-> <<>>]
    /\ earlyKeys = {}
    /\ items = <<>>
    /\ boxState = "none"
    /\ saved = {}
    /\ ops = MaxHubOps
    /\ InitCtl

\* SignalHub::Connect is called
HubConnect(t, n, sh) ==
    /\ CanCall(t)
    /\ hubState = "live"
    /\ Cardinality(FreeConns) > PendingConnects
    /\ stack' = Push(t, [Frame("HubConnect", "lock", End, End, n) EXCEPT !.sh = sh])
    /\ ops' = ops - 1
    /\ UNCHANGED <<sigVars, connVars, hubVars, boxVars, gone, muted, unheard,
                   early, orphans, before, parked, fault>>

\* Connect: lock_guard l(lock_); a live Signal is registered: signal = lock()
HubConnectFound(t) ==
    /\ Running(t)
    /\ InFrame(t, "HubConnect", "lock")
    /\ CanLock(hubLock, t)
    /\ LET f == Top(t)
           s == signals_[f.n]
       IN  /\ Registered(f.n)
           /\ Cast(sigShape[s], f.sh)
           /\ hubLock' = Acquire(hubLock, t)
           /\ sigStrong' = [sigStrong EXCEPT ![s] = @ + 1]
           /\ stack' = SetTop(t, [f EXCEPT !.pc = "connect", !.s = s])
    /\ UNCHANGED <<sigState, sigEnable, sigConns, sigLock, sigDeleter,
                   sigName, sigShape, sigHeld, connVars, hubState, signals_,
                   early_conns_, earlyKeys, boxVars, ops, gone, muted,
                   unheard, early, orphans, before, parked, fault>>

\* Connect: the live Signal has another Signature: dynamic_pointer_cast
\* gives a null pointer and ->Connect is called through it
HubConnectMismatch(t) ==
    /\ Running(t)
    /\ InFrame(t, "HubConnect", "lock")
    /\ CanLock(hubLock, t)
    /\ Registered(Top(t).n)
    /\ ~Cast(sigShape[signals_[Top(t).n]], Top(t).sh)
    /\ fault' = "connect: null signal pointer"
    /\ UNCHANGED <<sigVars, connVars, hubVars, boxVars, stack, ops, gone,
                   muted, unheard, early, orphans, before, parked>>

\* Connect: no live Signal: the Connection is parked in early_conns_[name]
\* with the Hub's detach callback
HubConnectPark(t) ==
    /\ Running(t)
    /\ InFrame(t, "HubConnect", "lock")
    /\ CanLock(hubLock, t)
    /\ LET f == Top(t)
           c == NewConn
       IN  /\ ~Registered(f.n)
           /\ connState' = [connState EXCEPT ![c] = "alive"]
           /\ connEnable' = [connEnable EXCEPT ![c] = TRUE]
           /\ connStrong' = [connStrong EXCEPT ![c] = 1]
           /\ connHeld' = [connHeld EXCEPT ![c] = TRUE]
           /\ connDeleter' = [connDeleter EXCEPT ![c] = HubDetach(f.n)]
           /\ connShape' = [connShape EXCEPT ![c] = f.sh]
           /\ early_conns_' = [early_conns_ EXCEPT ![f.n] = Park(@, c)]
           /\ earlyKeys' = earlyKeys \cup {f.n}
           /\ parked' = parked \cup {c}
    /\ stack' = Pop(t)
    /\ UNCHANGED <<sigVars, hubState, hubLock, signals_, boxVars, ops, gone,
                   muted, unheard, early, orphans, before, fault>>

\* Connect: ...->Connect(func, slot_name) on the Signal, under the Hub's
\* lock; then signal (the Hub's own reference) goes out of scope
HubConnectSignal(t) ==
    /\ Running(t)
    /\ InFrame(t, "HubConnect", "connect")
    /\ LET f == Top(t)
           s == f.s
           c == NewConn
           last == sigStrong[s] = 1
       IN  /\ CanLock(sigLock[s], t)
           /\ connState' = [connState EXCEPT ![c] = "alive"]
           /\ connEnable' = [connEnable EXCEPT ![c] = TRUE]
           /\ connStrong' = [connStrong EXCEPT ![c] = 1]
           /\ connHeld' = [connHeld EXCEPT ![c] = TRUE]
           /\ connDeleter' = [connDeleter EXCEPT ![c] = SigDetach(s)]
           /\ connShape' = [connShape EXCEPT ![c] = sigShape[s]]
           /\ sigConns' = [sigConns EXCEPT ![s] = Attach(@, c)]
           /\ sigStrong' = [sigStrong EXCEPT ![s] = @ - 1]
           /\ sigState' = IF last THEN [sigState EXCEPT ![s] = "expired"] ELSE sigState
           /\ stack' = [Disturb(stack, s) EXCEPT ![t] =
                  SubSeq(@, 1, Len(@) - 1) \o
                  IF last
                  THEN << [f EXCEPT !.pc = "unlock"],
                          Frame("SigDeleter",
                                IF sigDeleter[s] THEN "deleter" ELSE "dtor",
                                s, End, NoName) >>
                  ELSE << [f EXCEPT !.pc = "unlock"] >>]
    /\ UNCHANGED <<sigEnable, sigLock, sigDeleter, sigName, sigShape, sigHeld,
                   hubVars, boxVars, ops, gone, muted, unheard, early,
                   orphans, before, parked, fault>>

\* Connect returns: the lock_guard unlocks
HubConnectReturn(t) ==
    /\ Running(t)
    /\ InFrame(t, "HubConnect", "unlock")
    /\ hubLock' = Release(hubLock)
    /\ stack' = Pop(t)
    /\ UNCHANGED <<sigVars, connVars, hubState, signals_, early_conns_,
                   earlyKeys, boxVars, ops, gone, muted, unheard, early,
                   orphans, before, parked, fault>>

\* SignalHub::Emit is called
HubEmit(t, n, sh) ==
    /\ CanCall(t)
    /\ hubState = "live"
    /\ stack' = Push(t, [Frame("HubEmit", "lookup", End, End, n) EXCEPT
                            !.aft = gone, !.sh = sh])
    /\ ops' = ops - 1
    /\ UNCHANGED <<sigVars, connVars, hubVars, boxVars, gone, muted, unheard,
                   early, orphans, before, parked, fault>>

\* Emit: no entry for the name, or its weak_ptr is expired: return
HubEmitNothing(t) ==
    /\ Running(t)
    /\ InFrame(t, "HubEmit", "lookup")
    /\ CanLock(hubLock, t)
    /\ ~Registered(Top(t).n)
    /\ unheard' = IF unheard < 2 THEN unheard + 1 ELSE unheard
    /\ stack' = Pop(t)
    /\ UNCHANGED <<sigVars, connVars, hubVars, boxVars, ops, gone, muted,
                   early, orphans, before, parked, fault>>

\* Emit: signal = lock() under the Hub's lock, the lock is released, then
\* (*signal)(params...) runs up to its Enabled() check
HubEmitForward(t) ==
    /\ Running(t)
    /\ InFrame(t, "HubEmit", "lookup")
    /\ CanLock(hubLock, t)
    /\ LET f == Top(t)
           s == signals_[f.n]
       IN  /\ Registered(f.n)
           /\ Cast(sigShape[s], f.sh)
           /\ sigStrong' = EmitRef(s)
           /\ muted' = IF EmitEnabled(s) THEN muted ELSE muted \cup {s}
           /\ stack' = [stack EXCEPT ![t] =
                  Below(t) \o
                  IF EmitEnabled(s)
                  THEN << [f EXCEPT !.pc = "done", !.s = s],
                          [EmitFrame(s, "hub") EXCEPT !.aft = f.aft] >>
                  ELSE << [f EXCEPT !.pc = "done", !.s = s] >>]
    /\ UNCHANGED <<sigState, sigEnable, sigConns, sigLock, sigDeleter,
                   sigName, sigShape, sigHeld, connVars, hubVars, boxVars,
                   ops, gone, unheard, early, orphans, before, parked, fault>>

\* Emit: the live Signal has another Signature: dynamic_pointer_cast gives
\* a null pointer, which is dereferenced
HubEmitMismatch(t) ==
    /\ Running(t)
    /\ InFrame(t, "HubEmit", "lookup")
    /\ CanLock(hubLock, t)
    /\ Registered(Top(t).n)
    /\ ~Cast(sigShape[signals_[Top(t).n]], Top(t).sh)
    /\ fault' = "emit: null signal pointer"
    /\ UNCHANGED <<sigVars, connVars, hubVars, boxVars, stack, ops, gone,
                   muted, unheard, early, orphans, before, parked>>

\* Emit returns: signal (the Hub's own reference) goes out of scope
HubEmitReturn(t) ==
    /\ Running(t)
    /\ InFrame(t, "HubEmit", "done")
    /\ LET s == Top(t).s
           last == sigStrong[s] = 1
       IN  /\ sigStrong' = [sigStrong EXCEPT ![s] = @ - 1]
           /\ sigState' = IF last THEN [sigState EXCEPT ![s] = "expired"] ELSE sigState
           /\ stack' = [stack EXCEPT ![t] =
                  Below(t) \o
                  IF last
                  THEN << Frame("SigDeleter",
                                IF sigDeleter[s] THEN "deleter" ELSE "dtor",
                                s, End, NoName) >>
                  ELSE << >>]
    /\ UNCHANGED <<sigEnable, sigConns, sigLock, sigDeleter, sigName,
                   sigShape, sigHeld, connVars, hubVars, boxVars, ops, gone,
                   muted, unheard, early, orphans, before, parked, fault>>

\* SignalHub::AddSignal is called: new Signal, name_ = sig_name,
\* early_conns_.find(sig_name) without the Hub's lock; with no entry for the
\* name the loop and the erase are skipped
AddSignal(t, n, sh) ==
    /\ CanCall(t)
    /\ hubState = "live"
    /\ FreeSigs # {}
    /\ LET s == NewSig
       IN  /\ sigState' = [sigState EXCEPT ![s] = "building"]
           /\ sigName' = [sigName EXCEPT ![s] = n]
           /\ sigShape' = [sigShape EXCEPT ![s] = sh]
           /\ stack' = Push(t, [Frame("AddSignal",
                                      IF n \in earlyKeys THEN "migrate" ELSE "deleter",
                                      s, End, n) EXCEPT
                                   !.it = Begin(early_conns_[n])])
           /\ early' = [early EXCEPT ![s] =
                  {c \in Range(early_conns_[n]) : connHeld[c]}]
           /\ orphans' = [orphans EXCEPT ![s] =
                  {c \in Conns : connStrong[c] > 0 /\ connDeleter[c] = NoDeleter}]
           /\ before' = [before EXCEPT ![s] = gone]
    /\ ops' = ops - 1
    /\ UNCHANGED <<sigEnable, sigConns, sigLock, sigDeleter, sigStrong,
                   sigHeld, connVars, hubVars, boxVars, gone, muted, unheard,
                   parked, fault>>

\* AddSignal: one turn of the loop over the parked Connections:
\* tmp = conn.second.lock(); if (tmp) signal->ConnectInternal(p, tmp)
AddSignalMigrate(t) ==
    /\ Running(t)
    /\ InFrame(t, "AddSignal", "migrate")
    /\ LET f == Top(t)
           c == f.it
       IN  /\ f.clean
           /\ InList(early_conns_[f.n], c)
           /\ Locked(c) => Cast(connShape[c], sigShape[f.s])
           /\ IF Locked(c)
              THEN /\ CanLock(sigLock[f.s], t)
                   /\ sigConns' = [sigConns EXCEPT ![f.s] = Attach(@, c)]
                   /\ connDeleter' = [connDeleter EXCEPT ![c] = SigDetach(f.s)]
              ELSE UNCHANGED <<sigConns, connDeleter>>
           /\ stack' = SetTop(t, [f EXCEPT !.it = Succ(early_conns_[f.n], c)])
    /\ UNCHANGED <<sigState, sigEnable, sigLock, sigDeleter, sigName,
                   sigShape, sigStrong, sigHeld, connState, connEnable,
                   connShape, connStrong, connHeld, hubVars, boxVars, ops,
                   gone, muted, unheard, early, orphans, before, parked,
                   fault>>

\* AddSignal: a parked Connection has another Signature: dynamic_pointer_cast
\* gives a null pointer; ConnectInternal stores it in conns_ and calls
\* conn->Name() through it
AddSignalMismatch(t) ==
    /\ Running(t)
    /\ InFrame(t, "AddSignal", "migrate")
    /\ LET f == Top(t)
           c == f.it
       IN  /\ f.clean
           /\ InList(early_conns_[f.n], c)
           /\ Locked(c)
           /\ ~Cast(connShape[c], sigShape[f.s])
           /\ CanLock(sigLock[f.s], t)
    /\ fault' = "addsignal: null connection pointer"
    /\ UNCHANGED <<sigVars, connVars, hubVars, boxVars, stack, ops, gone,
                   muted, unheard, early, orphans, before, parked>>

\* AddSignal: conns_iter points to a map entry, or the loop's iterator to a
\* list node, that another thread erased (all of this runs without the
\* Hub's lock)
AddSignalDangling(t) ==
    /\ Running(t)
    /\ InFrame(t, "AddSignal", "migrate")
    /\ \/ ~Top(t).clean
       \/ Top(t).it # End /\ ~InList(early_conns_[Top(t).n], Top(t).it)
    /\ fault' = "addsignal: erased parked-list node"
    /\ UNCHANGED <<sigVars, connVars, hubVars, boxVars, stack, ops, gone,
                   muted, unheard, early, orphans, before, parked>>

\* AddSignal: the loop is over: early_conns_.erase(conns_iter); any other
\* AddSignal that found the same entry is left with an erased conns_iter
AddSignalErase(t) ==
    /\ Running(t)
    /\ InFrame(t, "AddSignal", "migrate")
    /\ Top(t).clean
    /\ Top(t).it = End
    /\ LET n == Top(t).n
       IN  /\ early_conns_' = Erased(n)
           /\ earlyKeys' = earlyKeys \ {n}
           /\ stack' = [u \in Threads |->
                  IF u = t
                  THEN Append(Below(t), [Top(t) EXCEPT !.pc = "deleter"])
                  ELSE [i \in 1..Len(stack[u]) |->
                           IF /\ stack[u][i].op = "AddSignal"
                              /\ stack[u][i].pc = "migrate"
                              /\ stack[u][i].n = n
                           THEN [stack[u][i] EXCEPT !.clean = FALSE]
                           ELSE stack[u][i]]]
    /\ UNCHANGED <<sigVars, connVars, hubState, hubLock, signals_, boxVars,
                   ops, gone, muted, unheard, early, orphans, before, parked,
                   fault>>

\* AddSignal: signal->deleter_ = the Hub's callback; the shared_ptr is made
AddSignalDeleter(t) ==
    /\ Running(t)
    /\ InFrame(t, "AddSignal", "deleter")
    /\ sigDeleter' = [sigDeleter EXCEPT ![Top(t).s] = TRUE]
    /\ stack' = SetTop(t, [Top(t) EXCEPT !.pc = "register"])
    /\ UNCHANGED <<sigState, sigEnable, sigConns, sigLock, sigName, sigShape,
                   sigStrong, sigHeld, connVars, hubVars, boxVars, ops, gone,
                   muted, unheard, early, orphans, before, parked, fault>>

\* AddSignal: lock_guard l(lock_); signals_[sig_name] = (signal, result);
\* the caller receives the handle
AddSignalRegister(t) ==
    /\ Running(t)
    /\ InFrame(t, "AddSignal", "register")
    /\ CanLock(hubLock, t)
    /\ LET f == Top(t)
       IN  /\ signals_' = [signals_ EXCEPT ![f.n] = f.s]
           /\ sigState' = [sigState EXCEPT ![f.s] = "live"]
           /\ sigStrong' = [sigStrong EXCEPT ![f.s] = 1]
           /\ sigHeld' = [sigHeld EXCEPT ![f.s] = TRUE]
    /\ stack' = Pop(t)
    /\ UNCHANGED <<sigEnable, sigConns, sigLock, sigDeleter, sigName,
                   sigShape, connVars, hubState, hubLock, early_conns_,
                   earlyKeys, boxVars, ops, gone, muted, unheard, early,
                   orphans, before, parked, fault>>

\* shared_ptr deleter of a Signal: p->deleter_(p) is the Hub's callback:
\* under the Hub's lock, erase the entry if it still is this Signal
SigDeleterHub(t) ==
    /\ Running(t)
    /\ InFrame(t, "SigDeleter", "deleter")
    /\ hubState = "live"
    /\ CanLock(hubLock, t)
    /\ LET s == Top(t).s
           n == sigName[s]
       IN  signals_' = Unregistered(s, n)
    /\ stack' = SetTop(t, [Top(t) EXCEPT !.pc = "dtor"])
    /\ UNCHANGED <<sigVars, connVars, hubState, hubLock, early_conns_,
                   earlyKeys, boxVars, ops, gone, muted, unheard, early,
                   orphans, before, parked, fault>>

\* p->deleter_(p) captured a Hub that has been destroyed
SigDeleterDangling(t) ==
    /\ Running(t)
    /\ InFrame(t, "SigDeleter", "deleter")
    /\ hubState = "destroyed"
    /\ fault' = "signal deleter: destroyed hub"
    /\ UNCHANGED <<sigVars, connVars, hubVars, boxVars, stack, ops, gone,
                   muted, unheard, early, orphans, before, parked>>

\* shared_ptr deleter of a parked Connection: p->deleter_(p) is the Hub's
\* callback: under the Hub's lock, erase it from early_conns_[name]; delete p
ConnDeleterHub(t) ==
    /\ Running(t)
    /\ InFrame(t, "ConnDeleter", "run")
    /\ LET c == Top(t).c
           n == connDeleter[c].n
       IN  /\ connDeleter[c].kind = "hub"
           /\ hubState = "live"
           /\ CanLock(hubLock, t)
           /\ early_conns_' = Unparked(n, c)
           /\ UNCHANGED earlyKeys
           /\ connState' = [connState EXCEPT ![c] = "deleted"]
           /\ gone' = gone \cup {c}
    /\ stack' = Pop(t)
    /\ UNCHANGED <<sigVars, connEnable, connDeleter, connShape, connStrong,
                   connHeld, hubState, hubLock, signals_, boxVars, ops, muted,
                   unheard, early, orphans, before, parked, fault>>

\* p->deleter_(p) of a parked Connection captured a Hub that has been destroyed
ConnDeleterHubDangling(t) ==
    /\ Running(t)
    /\ InFrame(t, "ConnDeleter", "run")
    /\ connDeleter[Top(t).c].kind = "hub"
    /\ hubState = "destroyed"
    /\ fault' = "detach: destroyed hub"
    /\ UNCHANGED <<sigVars, connVars, hubVars, boxVars, stack, ops, gone,
                   muted, unheard, early, orphans, before, parked>>

\* ~SignalHub: OnFinal on every registered Signal whose weak_ptr locks
SignalsFinal ==
    [s \in Sigs |->
        IF \E n \in Names : signals_[n] = s /\ sigStrong[s] > 0
        THEN FALSE ELSE sigDeleter[s]]

\* ~SignalHub: OnFinal on every parked Connection whose weak_ptr locks
ParkedFinal ==
    [c \in Conns |->
        IF (\E n \in Names : InList(early_conns_[n], c)) /\ Locked(c)
        THEN NoDeleter ELSE connDeleter[c]]

\* ~SignalHub
DestroyHub(t) ==
    /\ fault = "none"
    /\ ops > 0
    /\ stack[t] = <<>>
    /\ hubState = "live"
    /\ ~HubInUse
    /\ CanLock(hubLock, t)
    /\ sigDeleter' = SignalsFinal
    /\ connDeleter' = ParkedFinal
    /\ signals_' = [n \in Names |-> End]
    /\ early_conns_' = [n \in Names |-> <<>>]
    /\ earlyKeys' = {}
    /\ hubState' = "destroyed"
    /\ ops' = ops - 1
    /\ UNCHANGED <<sigState, sigEnable, sigConns, sigLock, sigName, sigShape,
                   sigStrong, sigHeld, connState, connEnable, connShape,
                   connStrong, connHeld, hubLock, boxVars, stack, gone, muted,
                   unheard, early, orphans, before, parked, fault>>

HubStep(t) ==
    \/ HubConnectFound(t)
    \/ HubConnectMismatch(t)
    \/ HubConnectPark(t)
    \/ HubConnectSignal(t)
    \/ HubConnectReturn(t)
    \/ HubEmitNothing(t)
    \/ HubEmitForward(t)
    \/ HubEmitMismatch(t)
    \/ HubEmitReturn(t)
    \/ AddSignalMigrate(t)
    \/ AddSignalMismatch(t)
    \/ AddSignalDangling(t)
    \/ AddSignalErase(t)
    \/ AddSignalDeleter(t)
    \/ AddSignalRegister(t)
    \/ SigDeleterHub(t)
    \/ SigDeleterDangling(t)
    \/ ConnDeleterHub(t)
    \/ ConnDeleterHubDangling(t)

HubCall(t) ==
    \/ \E n \in Names, sh \in Shapes : HubConnect(t, n, sh)
    \/ \E n \in Names, sh \in Shapes : HubEmit(t, n, sh)
    \/ \E n \in Names, sh \in SignalShapes : AddSignal(t, n, sh)
    \/ DestroyHub(t)

NextHub ==
    \E t \in Threads : HubCall(t) \/ HubStep(t) \/ SignalCall(t) \/ SignalStep(t)

SpecHub == InitHub /\ [][NextHub]_vars

----------------------------------------------------------------------------
(* Observations used by the properties *)

\* The emission passes in progress.
Passes == {f \in UNION {Range(stack[t]) : t \in Threads} : f.op = "Emit"}

\* A pass has visited every entry and is about to unlock.
Finished(f) == f.pc = "loop" /\ f.it = End

\* The entries of the dispatch list a pass has dealt with so far.
Visited(f) ==
    CASE f.pc = "lock" -> <<>>
      [] f.pc = "loop" -> Before(sigConns[f.s], f.it)
      [] OTHER -> IF InList(sigConns[f.s], f.it)
                  THEN SubSeq(sigConns[f.s], 1, IndexOf(sigConns[f.s], f.it))
                  ELSE <<>>

Live(c) == connStrong[c] > 0 /\ connEnable[c]

Created == {c \in Conns : connState[c] # "free"}

Iota(n) == [k \in 1..n |-> k]

\* An undisturbed pass has invoked, in list order, the visited entries whose
\* Connection is alive and enabled.
PassInvokesLive ==
    \A f \in Passes :
        f.clean => f.inv = SelectSeq(Visited(f), Live)

----------------------------------------------------------------------------
(* C1 *)

AllHeldEnabled == \A c \in Created : connHeld[c] /\ connEnable[c]

\* C1: after N Connect calls on one enabled Signal, all handles held and all
\* Connections enabled, one undisturbed Emit pass has invoked each of the N
\* callbacks exactly once, in the order of the Connect calls (Connections are
\* numbered in the order of their Connect calls), for every N >= 0.
C1_EmitInConnectOrder ==
    \A f \in Passes :
        (Finished(f) /\ f.clean /\ f.en /\ AllHeldEnabled)
            => f.inv = Iota(Cardinality(Created))

C1_Witness ==
    \E f \in Passes :
        /\ Finished(f) /\ f.clean /\ f.en /\ AllHeldEnabled
        /\ Cardinality(Created) = 3
        /\ f.inv = <<1, 2, 3>>

----------------------------------------------------------------------------
(* C2 *)

\* C2: no Emit that starts after the release call of a Connection's last
\* handle has returned invokes that Connection's callback.
C2_ReleasedNeverInvoked ==
    \A f \in Passes : Range(f.inv) \cap f.aft = {}

----------------------------------------------------------------------------
(* C3 *)

\* C3: a Connection that is still held when its Signal is destroyed has had
\* its detach callback cleared: no held Connection carries the detach
\* callback of a destroyed Signal, so its release does not reach that Signal.
C3_HeldConnectionDetached ==
    \A c \in Conns :
        (connStrong[c] > 0 /\ connDeleter[c].kind = "sig")
            => sigState[connDeleter[c].s] # "destroyed"

C3_Witness ==
    \E c \in Conns, s \in Sigs :
        /\ sigState[s] = "destroyed"
        /\ connState[c] = "deleted"
        /\ connDeleter[c].kind = "none"
        /\ c \in gone
        /\ fault = "none"

----------------------------------------------------------------------------
(* C4 *)

\* C4: when the last handle of a Signal and the last handle of one of its
\* Connections are released concurrently, the Connection's detach callback
\* never runs against a Signal whose destruction has completed.
C4_DetachNeverOnDestroyedSignal == fault # "detach: destroyed signal"

----------------------------------------------------------------------------
(* C5 *)

Count(seq, x) == Cardinality({i \in 1..Len(seq) : seq[i] = x})

\* A Connection is invoked by no pass for as long as it is parked.
ParkedNeverInvoked ==
    \A f \in Passes : \A n \in Names :
        Range(f.inv) \cap Range(early_conns_[n]) = {}

\* An undisturbed pass on a Signal made by AddSignal has invoked each
\* Connection that was parked when AddSignal was called, and is still held
\* and enabled, exactly once.
EarlyInvokedOnce ==
    \A f \in Passes :
        (Finished(f) /\ f.clean)
            => \A c \in early[f.s] :
                   (connHeld[c] /\ connEnable[c]) => Count(f.inv, c) = 1

\* Two such Connections are invoked in the order of their Connect calls
\* (Connections are numbered in the order of their creation).
EarlyInConnectOrder ==
    \A f \in Passes : \A i, j \in 1..Len(f.inv) :
        (i < j /\ f.inv[i] \in early[f.s] /\ f.inv[j] \in early[f.s]
               /\ f.clean)
            => f.inv[i] < f.inv[j]

\* C5: a Connection made by Hub.Connect(name) before Hub.AddSignal(name) is
\* invoked by no Emit before AddSignal, and, while its handle is held, exactly
\* once by each Emit pass on the Signal AddSignal made; several such
\* Connections are invoked in the order of their Connect calls.
C5_DeferredBinding ==
    ParkedNeverInvoked /\ EarlyInvokedOnce /\ EarlyInConnectOrder

C5_Witness ==
    \E f \in Passes :
        /\ Finished(f) /\ f.clean
        /\ f.via = "hub"
        /\ unheard > 0
        /\ Cardinality(early[f.s]) = 2
        /\ f.inv = <<1, 2>>
        /\ \A c \in early[f.s] : connHeld[c]

----------------------------------------------------------------------------
(* C6 *)

\* The Signal registered under a name and still alive, if any.
NoLiveSignal(n) == signals_[n] = End \/ sigStrong[signals_[n]] = 0

\* C6: when Hub.AddSignal(name) and Hub.Connect(name) run concurrently, then
\* once both have returned no held Connection is left parked in
\* early_conns_[name] while a live Signal is registered under the name.
C6_NeverParkedWhileRegistered ==
    \A n \in Names : \A c \in Range(early_conns_[n]) :
        (~HubInUse /\ connHeld[c]) => NoLiveSignal(n)

----------------------------------------------------------------------------
(* C7 *)

\* Thread t is at a lock_guard on the Hub's lock.
AtHubLock(t) ==
    \/ InFrame(t, "HubConnect", "lock")
    \/ InFrame(t, "HubEmit", "lookup")
    \/ InFrame(t, "AddSignal", "register")
    \/ InFrame(t, "SigDeleter", "deleter")
    \/ InFrame(t, "ConnDeleter", "run") /\ connDeleter[Top(t).c].kind = "hub"

\* Thread t is at a lock_guard on the lock of Signal s.
AtSigLock(t, s) ==
    \/ InFrame(t, "Emit", "lock") /\ Top(t).s = s
    \/ InFrame(t, "HubConnect", "connect") /\ Top(t).s = s
    \/ InFrame(t, "AddSignal", "migrate") /\ Top(t).s = s
    \/ InFrame(t, "SigDeleter", "dtor") /\ Top(t).s = s
    \/ InFrame(t, "ConnDeleter", "run") /\ connDeleter[Top(t).c] = SigDetach(s)

\* C7: no two threads block each other on the Hub's lock and a Signal's
\* lock: never does one thread wait for the Hub's lock while it owns the
\* lock of a Signal that the owner of the Hub's lock waits for.
C7_NoHubSignalLockCycle ==
    \A t, u \in Threads : \A s \in Sigs :
        ~ /\ t # u
          /\ AtHubLock(t) /\ hubLock.owner = u
          /\ AtSigLock(u, s) /\ sigLock[s].owner = t

----------------------------------------------------------------------------
(* C8 *)

\* C8: whatever a slot does on its own thread during Emit (Connect on the
\* same Signal, release of any Connection of that Signal), the pass never
\* advances to a dispatch-list entry that has been removed from the list.
C8_PassNeverOnErasedEntry ==
    \A f \in Passes :
        f.pc = "loop" => (f.it = End \/ InList(sigConns[f.s], f.it))

----------------------------------------------------------------------------
(* C9 *)

\* Signal.Enable changes neither a Connection's flag nor a dispatch list.
EnableKeepsConnections ==
    (sigEnable' # sigEnable) => (connEnable' = connEnable /\ sigConns' = sigConns)

\* An Emit that found its Signal disabled has invoked nothing.
DisabledInvokesNothing == \A f \in Passes : ~f.en => f.inv = <<>>

\* C9: an Emit on a disabled Signal invokes no callback whatever the flags of
\* its Connections; Signal.Enable leaves every Connection's flag and the
\* dispatch list unchanged; an Emit after re-enabling invokes exactly the
\* Connections whose own flag is enabled.
C9_DisableCascade ==
    /\ [](DisabledInvokesNothing /\ PassInvokesLive)
    /\ [][EnableKeepsConnections]_vars

C9_Witness ==
    \E f \in Passes :
        /\ f.s \in muted
        /\ Finished(f) /\ f.clean
        /\ f.inv # <<>>
        /\ \E c \in Range(sigConns[f.s]) : connHeld[c] /\ ~connEnable[c]

----------------------------------------------------------------------------
(* C10 *)

\* Thread t, at the lookup of Hub.Emit for a name without a live Signal,
\* takes a step.
EmitFindsNothing(t) ==
    /\ InFrame(t, "HubEmit", "lookup")
    /\ NoLiveSignal(Top(t).n)
    /\ Len(stack'[t]) # Len(stack[t])

\* C10: Hub.Emit on a name under which no live Signal is registered returns
\* at the lookup: no callback is invoked, no pass starts, nothing fails, and
\* the Signal map and the map of parked Connections are left as they were,
\* also on a repeated call and with Connections parked under the name.
C10_EmitUnregisteredIsNoOp ==
    [][\A t \in Threads :
          EmitFindsNothing(t)
              => /\ stack' = [stack EXCEPT ![t] = Below(t)]
                 /\ signals_' = signals_
                 /\ early_conns_' = early_conns_
                 /\ earlyKeys' = earlyKeys
                 /\ sigStrong' = sigStrong
                 /\ fault' = "none"]_vars

C10_Witness ==
    /\ unheard = 2
    /\ \A t \in Threads : stack[t] = <<>>
    /\ \E n \in Names :
          /\ NoLiveSignal(n)
          /\ \E c \in Range(early_conns_[n]) : connHeld[c] /\ c \notin UNION {Range(sigConns[s]) : s \in Sigs}
    /\ fault = "none"

----------------------------------------------------------------------------
(* C11 *)

\* The step that destroys the Hub clears the detach callback of every
\* registered Signal and of every parked Connection that is still alive.
TeardownClears ==
    (hubState = "live" /\ hubState' = "destroyed")
        => /\ \A n \in Names :
                 (signals_[n] # End /\ sigStrong[signals_[n]] > 0)
                     => ~sigDeleter'[signals_[n]]
           /\ \A n \in Names : \A c \in Range(early_conns_[n]) :
                 connStrong[c] > 0 => connDeleter'[c] = NoDeleter

\* Once the Hub is destroyed no object gets a detach callback of the Hub.
NoHubCallbackAfterTeardown ==
    hubState = "destroyed"
        => /\ \A s \in Sigs : sigDeleter'[s] => sigDeleter[s]
           /\ \A c \in Conns :
                 connDeleter'[c].kind = "hub" => connDeleter[c].kind = "hub"

\* C11: the destruction of a Hub clears the detach callback of every Signal
\* still registered in it and of every Connection still parked in it, and
\* they stay cleared, so that the later release of such a handle does not
\* reach the Hub.
C11_TeardownDetaches ==
    [][TeardownClears /\ NoHubCallbackAfterTeardown]_vars

C11_Witness ==
    /\ hubState = "destroyed"
    /\ fault = "none"
    /\ \A t \in Threads : stack[t] = <<>>
    /\ \E s \in Sigs :
          sigState[s] = "destroyed" /\ sigName[s] # NoName /\ ~sigDeleter[s]
    /\ \E c \in Conns :
          /\ connState[c] = "deleted" /\ c \in gone
          /\ connDeleter[c] = NoDeleter
          /\ c \in parked
          /\ \A s \in Sigs : c \notin early[s]

----------------------------------------------------------------------------
(* C12 *)

\* C12: in every state, also while AddSignal migrates the parked
\* Connections, a Connection that is alive is not at once in the dispatch
\* list of a Signal that exists and in a parked list of the Hub.
C12_NeverInBothLists ==
    \A c \in Conns : \A n \in Names : \A s \in Sigs :
        ~ /\ connStrong[c] > 0
          /\ InList(early_conns_[n], c)
          /\ sigState[s] \in {"building", "live"}
          /\ InList(sigConns[s], c)

----------------------------------------------------------------------------
(* C13 *)

\* C13: Hub.Connect and Hub.Emit with a Signature other than that of the
\* live Signal registered under the name, and Hub.AddSignal for a name with
\* a parked Connection of another Signature, never use a null Signal or
\* Connection pointer.
C13_MismatchNeverDereferenced ==
    fault \notin {"connect: null signal pointer",
                  "emit: null signal pointer",
                  "addsignal: null connection pointer"}

----------------------------------------------------------------------------
(* C14 *)

\* The passes that Hub.Emit started.
HubPasses == {f \in Passes : f.via = "hub"}

\* C14: while a pass started by Hub.Emit is in flight on a Signal, the Signal
\* is not final: it is referenced, its destructor has not started (no detach
\* callback of its Connections has been cleared by it), whoever released the
\* owner's handle in the meantime.
C14_EmitKeepsSignalAlive ==
    \A f \in HubPasses : sigState[f.s] = "live" /\ sigStrong[f.s] > 0

C14_Witness ==
    \E f \in HubPasses :
        /\ f.pc = "loop"
        /\ f.inv # <<>>
        /\ ~sigHeld[f.s]
        /\ sigStrong[f.s] = 1
        /\ sigState[f.s] = "live"
        /\ \A c \in Range(sigConns[f.s]) : connDeleter[c] = SigDetach(f.s)

----------------------------------------------------------------------------
(* C15 *)

\* A Connection that is alive and whose detach callback OnFinal has cleared.
Inert(c) == connStrong[c] > 0 /\ connDeleter[c] = NoDeleter

\* The Connections whose slot is running.
InSlot ==
    {f.c : f \in {g \in UNION {Range(stack[t]) : t \in Threads} :
                      g.op = "Callback"}}

\* C15: a Connection whose Signal was destroyed first is inert and stays so:
\* it is in no parked list, in the dispatch list of no registered Signal and
\* of no Signal whose AddSignal was called later, and no emission runs its
\* slot.
C15_OrphanStaysInert ==
    \A c \in Conns :
        Inert(c)
            => /\ \A s \in Sigs :
                     (sigState[s] = "live" \/ c \in orphans[s])
                         => ~InList(sigConns[s], c)
               /\ \A n \in Names : ~InList(early_conns_[n], c)
               /\ c \notin InSlot

C15_Witness ==
    \E c \in Conns, s \in Sigs, f \in HubPasses :
        /\ sigState[s] = "destroyed"
        /\ Inert(c) /\ connHeld[c] /\ c \notin parked
        /\ f.s # s /\ sigName[f.s] = sigName[s] /\ c \in orphans[f.s]
        /\ Finished(f) /\ f.clean /\ f.inv = <<>>
        /\ fault = "none"

----------------------------------------------------------------------------
(* C16 *)

\* The Connections the container keeps alive on its own: saved, still in
\* items_, and the caller's handle released.
KeptByContainer ==
    {c \in Range(items) : boxState = "live" /\ ~connHeld[c]}

\* First half of C16: while the container exists, a saved Connection whose
\* handle the caller released is still alive and still in the dispatch list
\* of its Signal, and an undisturbed pass on the enabled Signal has invoked
\* it once it has gone past its entry.
C16_SavedStaysBound ==
    \A c \in KeptByContainer :
        /\ connStrong[c] > 0
        /\ connDeleter[c].kind = "sig" =>
               /\ InList(sigConns[connDeleter[c].s], c)
               /\ \A f \in Passes :
                      (f.s = connDeleter[c].s /\ f.clean /\ f.en
                       /\ connEnable[c] /\ InList(Visited(f), c))
                          => InList(f.inv, c)

C16_SavedInvoked ==
    \E f \in Passes :
        /\ Finished(f) /\ f.clean /\ f.en
        /\ \E c \in KeptByContainer : InList(f.inv, c)

\* C16: a Connection saved in a container keeps being invoked while the
\* container exists, and once the container has been released with no other
\* handle left, no Emit that starts afterwards invokes the Connection.
C16_SaveRetainsUntilContainerGone ==
    /\ C16_SavedStaysBound
    /\ \A f \in Passes : Range(f.inv) \cap f.aft \cap saved = {}

----------------------------------------------------------------------------
(* C17 *)

\* The Signals whose detach callback is running on some thread.
Finalizing ==
    {f.s : f \in {g \in UNION {Range(stack[t]) : t \in Threads} :
                      g.op = "SigDeleter" /\ g.pc = "deleter"}}

\* C17: while the Hub lives, the map entry of a name is removed only by the
\* detach callback of the very Signal the entry refers to: the finalization
\* of an older Signal of the same name leaves the entry of the newer one in
\* place, and Hub.Emit keeps finding it.
C17_OnlyOwnEntryRemoved ==
    [][\A n \in Names :
          (hubState' = "live" /\ signals_[n] # End /\ signals_'[n] # signals_[n])
              => \/ signals_'[n] # End /\ sigState'[signals_'[n]] = "live"
                 \/ signals_[n] \in Finalizing /\ signals_'[n] = End]_vars

\* The older Signal of a name has been finalized and destroyed after the
\* newer one was registered, and Hub.Emit is in a pass on the newer one.
C17_Witness ==
    \E f \in HubPasses, s \in Sigs :
        /\ s < f.s
        /\ sigName[s] = sigName[f.s]
        /\ sigState[s] = "destroyed"
        /\ ~sigHeld[s]
        /\ signals_[sigName[s]] = f.s
        /\ sigHeld[f.s]
        /\ hubState = "live"
        /\ fault = "none"

----------------------------------------------------------------------------
(* C18 *)

\* The Connections released while still parked: created by Hub.Connect with
\* no Signal of the name, never bound, and the release call has returned.
DroppedEarly ==
    {c \in parked : connState[c] = "deleted" /\ connDeleter[c].kind = "hub"}

\* C18: a parked Connection released before any Signal of its name was added
\* is no longer in the Hub's parked list, and a Signal added afterwards
\* neither holds it in its dispatch list nor invokes it in any pass.
C18_DroppedEarlyNeverBound ==
    \A c \in DroppedEarly :
        /\ \A n \in Names : ~InList(early_conns_[n], c)
        /\ \A s \in Sigs : ~InList(sigConns[s], c)
        /\ \A f \in Passes : ~InList(f.inv, c)
        /\ c \notin InSlot

\* A Connection was parked and released, then a Signal of its name was
\* added, a Connection parked later was bound to it, and a Hub.Emit pass on
\* that Signal has finished having invoked only the latter.
C18_Witness ==
    \E f \in HubPasses, c \in DroppedEarly :
        /\ c \in before[f.s]
        /\ connDeleter[c].n = sigName[f.s]
        /\ Finished(f) /\ f.clean /\ f.en
        /\ f.inv # <<>>
        /\ Range(f.inv) \subseteq early[f.s]
        /\ fault = "none"

----------------------------------------------------------------------------
(* C19 *)

\* The entries a pass has dealt with whose Connection lost its last handle
\* before the pass began.
StaleVisited(f) == {c \in Range(Visited(f)) : c \in f.aft}

\* An undisturbed pass has removed every visited entry whose weak_ptr no
\* longer locks.
C19_ExpiredPruned ==
    \A f \in Passes :
        (f.clean /\ f.pc = "loop") => \A c \in Range(Visited(f)) : Locked(c)

\* C19: a pass invokes no Connection whose last handle was released before
\* the pass began, and when it has completed the dispatch list holds no
\* entry for such a Connection.
C19_StaleSkippedAndPruned ==
    \A f \in Passes :
        /\ \A c \in Range(f.inv) : c \notin f.aft
        /\ Finished(f) => StaleVisited(f) = {}

----------------------------------------------------------------------------
(* C20 *)

\* The invocations of a pass follow the order the Connections had in the
\* dispatch list when the pass began.
InStartOrder(f) ==
    \A i, j \in 1..Len(f.inv) :
        (i < j /\ InList(f.at, f.inv[i]) /\ InList(f.at, f.inv[j]))
            => IndexOf(f.at, f.inv[i]) < IndexOf(f.at, f.inv[j])

C20_StartOrderKept == \A f \in Passes : InStartOrder(f)

\* C20: a pass invokes only Connections that were in the dispatch list when
\* it began, in the order they had then; a Connection added to the Signal by
\* a callback of the pass is not invoked in that pass.
C20_PassInvokesBoundAtStart ==
    \A f \in Passes :
        /\ Range(f.inv) \subseteq Range(f.at)
        /\ InStartOrder(f)

====
